---- MODULE Spec2Model ----
(***************************************************************************)
(* vue-number-format: the edit engine of src/src/core.ts (updateValue,     *)
(* inputHandler, blurHandler, keydownHandler, updateCursor) acting on one  *)
(* bound input element.  Text is a sequence of one-character strings.      *)
(* The Formatter (./number-format, imported by core.ts but not part of the *)
(* inspected sources) is modelled from section 4.1 of the specification.   *)
(***************************************************************************)
EXTENDS Integers, Sequences, FiniteSets, TLC

(***************************************************************************)
(* Bounds of the model.                                                    *)
(***************************************************************************)
\* most digits of a raw text the user produces by a single keystroke
MaxTyped == 2

(***************************************************************************)
(* JavaScript values and string primitives used by core.ts.                *)
(***************************************************************************)
\* the value of an optional field never assigned (masked?, oldValue?, ...)
Undefined == <<"undefined">>

Min2(a, b) == IF a < b THEN a ELSE b

Max2(a, b) == IF a > b THEN a ELSE b

\* String.prototype.slice(start, end) with JavaScript's index normalisation
Slice(s, start, end) ==
  LET n  == Len(s)
      from == IF start < 0 THEN Max2(n + start, 0) ELSE Min2(start, n)
      to   == IF end < 0 THEN Max2(n + end, 0) ELSE Min2(end, n)
  IN  IF from >= to THEN <<>> ELSE SubSeq(s, from + 1, to)

\* does pat occur in s at 0-based offset i
OccursAt(s, pat, i) ==
  /\ i + Len(pat) <= Len(s)
  /\ \A k \in 1..Len(pat) : s[i + k] = pat[k]

\* String.prototype.includes
Includes(s, pat) == \E i \in 0..Len(s) : OccursAt(s, pat, i)

\* String.prototype.replace(pattern, '') with a string pattern: the FIRST
\* occurrence only
ReplaceFirst(s, pat) ==
  IF ~Includes(s, pat) THEN s
  ELSE LET i == CHOOSE j \in 0..Len(s) :
                  /\ OccursAt(s, pat, j)
                  /\ \A k \in 0..(j - 1) : ~OccursAt(s, pat, k)
       IN  SubSeq(s, 1, i) \o SubSeq(s, i + Len(pat) + 1, Len(s))

\* length of the match of one regular-expression alternative at offset i, or
\* -1: the pattern text is used unescaped, so "$" is the end anchor and "."
\* matches any character
RECURSIVE MatchLen(_, _, _)
MatchLen(pat, s, i) ==
  IF pat = <<>> THEN 0
  ELSE IF Head(pat) = "$"
       THEN IF i = Len(s)
            THEN MatchLen(Tail(pat), s, i)
            ELSE -1
       ELSE IF i < Len(s) /\ (Head(pat) = "." \/ s[i + 1] = Head(pat))
            THEN LET r == MatchLen(Tail(pat), s, i + 1)
                 IN  IF r < 0 THEN -1 ELSE r + 1
            ELSE -1

\* s.replace(new RegExp(`${a}|${b}`, 'g'), ''): at every offset the first
\* alternative is tried before the second; an empty match removes nothing
RECURSIVE RegExpRemove(_, _, _, _)
RegExpRemove(s, a, b, i) ==
  IF i >= Len(s) THEN <<>>
  ELSE LET ma == MatchLen(a, s, i)
           m  == IF ma >= 0 THEN ma ELSE MatchLen(b, s, i)
       IN  IF m > 0
           THEN RegExpRemove(s, a, b, i + m)
           ELSE <<s[i + 1]>> \o RegExpRemove(s, a, b, i + 1)

(***************************************************************************)
(* Numbers.                                                                *)
(***************************************************************************)
Digits == <<"0", "1", "2", "3", "4", "5", "6", "7", "8", "9">>

IsDigit(c) == \E i \in 1..10 : Digits[i] = c

DigitVal(c) == (CHOOSE i \in 1..10 : Digits[i] = c) - 1

RECURSIVE Pow10(_)
Pow10(n) == IF n = 0 THEN 1 ELSE 10 * Pow10(n - 1)

\* value of a sequence of digits (0 for the empty sequence)
RECURSIVE DigitsToNat(_)
DigitsToNat(ds) ==
  IF ds = <<>> THEN 0
  ELSE 10 * DigitsToNat(SubSeq(ds, 1, Len(ds) - 1)) + DigitVal(ds[Len(ds)])

RECURSIVE NatToDigits(_)
NatToDigits(n) ==
  IF n < 10 THEN <<Digits[n + 1]>>
  ELSE NatToDigits(n \div 10) \o <<Digits[(n % 10) + 1]>>

\* String(n) for an integer n
NumToStr(n) == IF n < 0 THEN <<"-">> \o NatToDigits(-n) ELSE NatToDigits(n)

\* Number(text) of a canonical numeric string, as a fraction num/den with den a
\* power of ten; Number("") is 0; nan marks text that is no number
NumberOf(neg, int, frac, marked) ==
  LET ok == /\ \A i \in 1..Len(int) : IsDigit(int[i])
            /\ \A i \in 1..Len(frac) : IsDigit(frac[i])
            /\ (neg \/ marked) => (Len(int) + Len(frac) > 0)
  IN  [nan |-> ~ok,
       num |-> IF ~ok THEN 0
               ELSE IF neg THEN -DigitsToNat(int \o frac) ELSE DigitsToNat(int \o frac),
       den |-> IF ~ok THEN 1 ELSE Pow10(Len(frac))]

\* offset (from 1) of the first "." of body, Len(body) + 1 if none
FirstDot(body) ==
  LET dots == {i \in 1..Len(body) : body[i] = "."}
  IN  IF dots = {} THEN Len(body) + 1
      ELSE CHOOSE i \in dots : \A j \in dots : i <= j

NumberAt(neg, body, dot) ==
  NumberOf(neg, SubSeq(body, 1, dot - 1), SubSeq(body, dot + 1, Len(body)),
           dot <= Len(body))

ToNumber(str) ==
  IF str # <<>> /\ str[1] = "-"
  THEN NumberAt(TRUE, Tail(str), FirstDot(Tail(str)))
  ELSE NumberAt(FALSE, str, FirstDot(str))

\* Number(text) > bound and Number(text) < bound (false for NaN)
Greater(v, bound) == ~v.nan /\ v.num > bound * v.den

Less(v, bound) == ~v.nan /\ v.num < bound * v.den

NumberGreater(str, bound) == Greater(ToNumber(str), bound)

NumberLess(str, bound) == Less(ToNumber(str), bound)

(***************************************************************************)
(* The Formatter (specification section 4.1).                              *)
(***************************************************************************)
StartsWith(s, p) == Len(p) <= Len(s) /\ SubSeq(s, 1, Len(p)) = p

EndsWith(s, p) == Len(p) <= Len(s) /\ SubSeq(s, Len(s) - Len(p) + 1, Len(s)) = p

\* the text with prefix and suffix stripped
StripAffixes(opts, input) ==
  LET a == IF opts.prefix # <<>> /\ StartsWith(input, opts.prefix)
           THEN SubSeq(input, Len(opts.prefix) + 1, Len(input)) ELSE input
  IN  IF opts.suffix # <<>> /\ EndsWith(a, opts.suffix)
      THEN SubSeq(a, 1, Len(a) - Len(opts.suffix)) ELSE a

\* the digits a text reduces to: sign, scaled magnitude (value * 10^precision,
\* rounded half away from zero), and whether any digit is left.  Characters
\* other than digits, a leading sign and the first decimal mark are dropped.
\* In reverse-fill entry (not clean) every digit fills from the fractional end.
Scaled(opts, isClean, neg, int, frac) ==
  LET p    == opts.precision
      head == SubSeq(frac, 1, Min2(p, Len(frac)))
      pad  == [i \in 1..(p - Min2(p, Len(frac))) |-> "0"]
      up   == IF Len(frac) > p /\ DigitVal(frac[p + 1]) >= 5 THEN 1 ELSE 0
  IN  [neg       |-> neg,
       hasDigits |-> Len(int) + Len(frac) > 0,
       scaled    |-> IF opts.reverseFill /\ ~isClean
                     THEN DigitsToNat(int \o frac)
                     ELSE DigitsToNat(int \o head \o pad) + up]

\* offset (from 1) of the first decimal mark of kept, Len(kept) + 1 if none
FirstMark(kept, decimal) ==
  LET marks == {i \in 1..Len(kept) : kept[i] = decimal}
  IN  IF marks = {} THEN Len(kept) + 1
      ELSE CHOOSE i \in marks : \A j \in marks : i <= j

Scan(opts, isClean, kept, mark) ==
  Scaled(opts, isClean, kept # <<>> /\ kept[1] = "-",
         SelectSeq(SubSeq(kept, 1, mark - 1), IsDigit),
         SelectSeq(SubSeq(kept, mark + 1, Len(kept)), IsDigit))

Kept(opts, body) ==
  SelectSeq(body, LAMBDA c : IsDigit(c) \/ c = "-" \/ c = opts.decimal)

ScanKept(opts, isClean, kept) == Scan(opts, isClean, kept, FirstMark(kept, opts.decimal))

Parse(opts, isClean, input) ==
  ScanKept(opts, isClean, Kept(opts, StripAffixes(opts, input)))

\* fractional digits of a scaled magnitude: exactly precision digits, trailing
\* zeros trimmed down to minimumFractionDigits
RECURSIVE TrimZeros(_, _)
TrimZeros(ds, keep) ==
  IF Len(ds) > keep /\ ds[Len(ds)] = "0"
  THEN TrimZeros(SubSeq(ds, 1, Len(ds) - 1), keep)
  ELSE ds

FracDigits(opts, scaled) ==
  LET p   == opts.precision
      raw == NatToDigits(scaled % Pow10(p))
      all == IF p = 0 THEN <<>> ELSE [i \in 1..(p - Len(raw)) |-> "0"] \o raw
  IN  TrimZeros(all, opts.minimumFractionDigits)

IntDigits(opts, scaled) == NatToDigits(scaled \div Pow10(opts.precision))

\* separator every three digits of the integer part, counted from its end
RECURSIVE Group(_, _)
Group(ds, sep) ==
  IF Len(ds) <= 3 THEN ds
  ELSE Group(SubSeq(ds, 1, Len(ds) - 3), sep) \o <<sep>> \o SubSeq(ds, Len(ds) - 2, Len(ds))

\* format(value): the masked display text
\* the display text of parsed digits n: prefix, sign, grouped integer part,
\* decimal mark and fraction, suffix
Masked(opts, neg, int, frac) ==
  opts.prefix
  \o (IF neg THEN <<"-">> ELSE <<>>)
  \o Group(int, opts.separator)
  \o (IF frac = <<>> THEN <<>> ELSE <<opts.decimal>> \o frac)
  \o opts.suffix

FormatParsed(opts, n) ==
  IF ~n.hasDigits
  THEN IF opts.prefill
       THEN Masked(opts, FALSE, IntDigits(opts, 0), FracDigits(opts, 0))
       ELSE opts.nullValue
  ELSE Masked(opts, n.neg, IntDigits(opts, n.scaled), FracDigits(opts, n.scaled))

Format(opts, isClean, input) == FormatParsed(opts, Parse(opts, isClean, input))

\* unformat(display): the clean numeric string, "" when no digit is left
\* the clean numeric string of sign, integer digits and fraction digits
Unmasked(neg, int, frac) ==
  (IF neg THEN <<"-">> ELSE <<>>)
  \o int
  \o (IF frac = <<>> THEN <<>> ELSE <<".">> \o frac)

UnformatParsed(opts, n) ==
  IF ~n.hasDigits THEN <<>>
  ELSE Unmasked(n.neg, IntDigits(opts, n.scaled), FracDigits(opts, n.scaled))

Unformat(opts, isClean, input) == UnformatParsed(opts, Parse(opts, isClean, input))

(***************************************************************************)
(* Events (core.ts lines 57-75, 240, 244).                                 *)
(***************************************************************************)
\* an input event dispatched without the marker
UnmarkedInputEvent == [type |-> "input", facade |-> FALSE]

\* CustomEvent('input', {detail: {facade: true}})
FacadeInputEvent == [type |-> "input", facade |-> TRUE]

\* CustomEvent('change', {detail: {facade: true}})
FacadeChangeEvent == [type |-> "change", facade |-> TRUE]

\* new Event('input'): no detail, hence no facade marker
SyntheticInputEvent == [type |-> "input", facade |-> FALSE]

\* a handler that never recognises its own events
IsFacadeNever(event) == FALSE

\* detail?.facade
IsFacade(event) == event.facade

\* JavaScript truthiness of a number and of a string
TruthyNumber(n) == n # 0

TruthyString(s) == s # <<>>

(***************************************************************************)
(* updateCursor (lines 95-102).  setSelectionRange takes unsigned offsets: *)
(* an offset below 0 or beyond the text lands at the end of the text.      *)
(***************************************************************************)
SetSelectionRange(el, position) ==
  [el EXCEPT !.selectionEnd =
     IF position < 0 \/ position > Len(el.value) THEN Len(el.value) ELSE position]

\* the selection is set, and set once more by the call that builds the
\* argument of setTimeout; both happen inside updateCursor
UpdateCursor(el, position) ==
  SetSelectionRange(SetSelectionRange(el, position), position)

\* a timer handler that is no function (undefined): running it does nothing
NotCallable == [callable |-> FALSE, position |-> 0]

\* line 101: the handler given to setTimeout is the value of the call
\* setSelectionRange(), and the closure of lines 96-98 returns nothing
TimerHandler(position) == NotCallable

\* the handlers given to setTimeout by the calls of updateCursor, in order
Scheduled(cursor) == [i \in 1..Len(cursor) |-> TimerHandler(cursor[i])]

\* el.value = text: the caret of the element goes to the end of the new text
AssignValue(el, text) ==
  IF el.value = text THEN el
  ELSE [el EXCEPT !.value = text, !.selectionEnd = Len(text)]

(***************************************************************************)
(* updateValue (lines 112-144); vnode is null in both handlers, so         *)
(* currentValue is el.value.                                               *)
(***************************************************************************)
\* lines 121-130: the masked/unmasked pair after the range check
ClampToRange(opts, isClean, clean, masked, unmasked) ==
  IF clean /\ TruthyNumber(opts.max) /\ NumberGreater(unmasked, opts.max)
  THEN [masked   |-> Format(opts, isClean, NumToStr(opts.max)),
        unmasked |-> Unformat(opts, isClean, NumToStr(opts.max))]
  ELSE IF clean /\ TruthyNumber(opts.min) /\ NumberLess(unmasked, opts.min)
  THEN [masked   |-> Format(opts, isClean, NumToStr(opts.min)),
        unmasked |-> Unformat(opts, isClean, NumToStr(opts.min))]
  ELSE [masked |-> masked, unmasked |-> unmasked]

\* what a listener of a facade notification finds on the element
Seen(e) == [value |-> e.value, masked |-> e.masked, unmaskedValue |-> e.unmaskedValue]

\* line 142: the notification of updateValue, dispatched on element e
Announce(e, emit) ==
  [el       |-> e,
   events   |-> IF emit THEN <<FacadeInputEvent>> ELSE <<>>,
   seen     |-> IF emit THEN <<Seen(e)>> ELSE <<>>,
   computed |-> TRUE]

\* returns the element and the events it dispatched
\* lines 132-142: the pair r is stored, shown and announced
Store(el, emit, r) ==
  Announce(AssignValue([el EXCEPT !.masked = r.masked,
                                  !.unmaskedValue = r.unmasked], r.masked), emit)

UpdateValue(el, opts, emit, force, clean) ==
  IF force \/ el.oldValue # el.value
  THEN Store(el, emit,
             ClampToRange(opts, ~opts.reverseFill, clean,
                          Format(opts, clean /\ ~opts.reverseFill, el.value),
                          Unformat(opts, ~opts.reverseFill, el.value)))
  ELSE [el |-> el, events |-> <<>>, seen |-> <<>>, computed |-> FALSE]

\* lines 171-178 and 230-237: the caret offset from the distance to the end
CursorPosition(opts, text, positionFromEnd) ==
  LET fromEnd == IF TruthyString(opts.suffix)
                 THEN Max2(positionFromEnd, Len(opts.suffix))
                 ELSE positionFromEnd
      fromStart == Len(text) - fromEnd
  IN  IF TruthyString(opts.prefix)
      THEN Max2(fromStart, Len(opts.prefix))
      ELSE fromStart

\* an input handler whose updateValue notifies as well
InputUpdateEmitting(el, opts) == UpdateValue(el, opts, TRUE, FALSE, FALSE)

\* an input handler that commits (clean) on every keystroke
InputUpdateClean(el, opts) == UpdateValue(el, opts, FALSE, FALSE, TRUE)

\* line 169: updateValue(target, null, { emit: false })
InputUpdate(el, opts) == UpdateValue(el, opts, FALSE, FALSE, FALSE)

(***************************************************************************)
(* inputHandler (lines 151-185).  The result carries the element, the      *)
(* events dispatched in order, the offsets given to updateCursor and       *)
(* whether updateValue recomputed.                                         *)
(***************************************************************************)
\* lines 164-167: the caret's distance from the end of the raw text
PositionFromEnd(el) ==
  IF el.selectionEnd # 0 THEN Len(el.value) - el.selectionEnd ELSE Len(el.value)

\* lines 179-184, with oldValue and masked as read at line 159, u the result
\* of updateValue and position the new caret offset
InputFinish(oldValue, masked, u, position) ==
  LET c      == UpdateCursor(u.el, position)
      notify == oldValue # u.el.value
  IN  [el       |-> IF notify THEN [c EXCEPT !.oldValue = masked] ELSE c,
       events   |-> u.events \o (IF notify THEN <<FacadeInputEvent>> ELSE <<>>),
       seen     |-> u.seen \o (IF notify THEN <<Seen(c)>> ELSE <<>>),
       cursor   |-> <<position>>,
       computed |-> u.computed]

InputHandler(el, opts, event) ==
  IF IsFacade(event)
  THEN [el |-> el, events |-> <<>>, seen |-> <<>>, cursor |-> <<>>, computed |-> FALSE]
  ELSE InputFinish(el.oldValue, el.masked, InputUpdate(el, opts),
                   CursorPosition(opts, InputUpdate(el, opts).el.value,
                                  PositionFromEnd(el)))

(***************************************************************************)
(* blurHandler (lines 190-206).                                            *)
(***************************************************************************)
\* lines 202-205, with oldValue and masked as read at line 198
BlurFinish(oldValue, masked, u) ==
  LET notify == oldValue # u.el.value
  IN  [el       |-> IF notify THEN [u.el EXCEPT !.oldValue = masked] ELSE u.el,
       events   |-> u.events \o (IF notify THEN <<FacadeChangeEvent>> ELSE <<>>),
       seen     |-> u.seen \o (IF notify THEN <<Seen(u.el)>> ELSE <<>>),
       cursor   |-> <<>>,
       computed |-> u.computed]

\* a blur handler that recomputes only a text that differs from oldValue
BlurUpdateUnforced(el, opts) == UpdateValue(el, opts, TRUE, FALSE, TRUE)

\* line 200: updateValue(target, null, { force: true, emit: true, clean: true })
BlurUpdate(el, opts) == UpdateValue(el, opts, TRUE, TRUE, TRUE)

BlurHandler(el, opts, event) ==
  IF IsFacade(event)
  THEN [el |-> el, events |-> <<>>, seen |-> <<>>, cursor |-> <<>>, computed |-> FALSE]
  ELSE BlurFinish(el.oldValue, el.masked, BlurUpdate(el, opts))

(***************************************************************************)
(* keydownHandler (lines 211-247).  A key is its keyCode and its key text. *)
(***************************************************************************)
KeyBackspace == 8

KeyNumpadSubtract == 109

KeyNumpadDecimal == 110

KeyPeriod == 190

\* the element after the listeners of a dispatched event have run: the input
\* listener of the field is inputHandler
Dispatch(el, opts, event) ==
  IF event.type = "input" THEN InputHandler(el, opts, event)
  ELSE [el |-> el, events |-> <<>>, seen |-> <<>>, cursor |-> <<>>, computed |-> FALSE]

\* lines 222-229: the text left by the backspace over a separator
RemoveBeforeCursor(text, selectionEnd) ==
  ReplaceFirst(text, Slice(text, selectionEnd - 2, selectionEnd))

\* lines 216 and 218: is the keystroke suppressed by the decimal or sign gate
DecimalGate(el, opts, key) ==
  LET newValue == RegExpRemove(el.value, opts.prefix, opts.suffix, 0)
  IN  /\ (key.keyCode \in {KeyNumpadDecimal, KeyPeriod} \/ key.key = <<opts.decimal>>)
      /\ Includes(newValue, <<opts.decimal>>)

NegativeGate(opts, key) ==
  LET canNegativeInput == opts.min < 0
  IN  key.keyCode \in {KeyNumpadSubtract} /\ ~canNegativeInput

\* line 241: [options.prefix, '-'].includes(character)
AtPrefixOrSign(opts, character) == character \in {opts.prefix, <<"-">>}

\* the outcome of a suppressed backspace: d is what the synthetic input
\* event did to the edited element
Raised(d, cursor, branch, edited) ==
  [el |-> d.el,
   events |-> <<SyntheticInputEvent>> \o d.events,
   seen |-> d.seen,
   cursor |-> cursor \o d.cursor,
   computed |-> d.computed,
   prevented |-> TRUE, branch |-> branch, edited |-> edited]

\* lines 226-240, e1 being the element after line 229
OverSeparator(e1, opts, position) ==
  Raised(Dispatch(UpdateCursor(e1, position), opts, SyntheticInputEvent),
         <<position>>, "separator", e1.value)

\* lines 242-244
ClearField(el, opts) ==
  Raised(Dispatch(AssignValue(el, <<>>), opts, SyntheticInputEvent),
         <<>>, "clear", <<>>)

\* lines 220-246
OnBackspace(el, opts, quiet, selectionEnd, character) ==
  IF character = <<opts.separator>>
  THEN OverSeparator(AssignValue(el, RemoveBeforeCursor(el.value, selectionEnd)), opts,
                     CursorPosition(opts, RemoveBeforeCursor(el.value, selectionEnd),
                                    Len(el.value) - selectionEnd))
  ELSE IF AtPrefixOrSign(opts, character)
  THEN ClearField(el, opts)
  ELSE quiet

\* the outcome of a keydown that does nothing
Quiet(el) ==
  [el |-> el, events |-> <<>>, seen |-> <<>>, cursor |-> <<>>, computed |-> FALSE,
   prevented |-> FALSE, branch |-> "none", edited |-> el.value]

KeydownHandler(el, opts, key) ==
  IF DecimalGate(el, opts, key)
  THEN [Quiet(el) EXCEPT !.prevented = TRUE, !.branch = "decimal"]
  ELSE IF NegativeGate(opts, key)
  THEN [Quiet(el) EXCEPT !.prevented = TRUE, !.branch = "negative"]
  ELSE IF key.keyCode \in {KeyBackspace}
  THEN OnBackspace(el, opts, Quiet(el), el.selectionEnd,
                   Slice(el.value, el.selectionEnd - 1, el.selectionEnd))
  ELSE Quiet(el)

(***************************************************************************)
(* The bound field: its options, the fields of the element that last from  *)
(* one transaction to the next (el), a record of the transaction in        *)
(* progress (tx: the handler that ran, the element it was given and what   *)
(* it did) and the history before it (prev: the kind of the transaction    *)
(* before, whether all were native inputs, the text shown and the text a   *)
(* listener last heard).  The caret is not kept between transactions: the  *)
(* user places it before the next event, and no handler reads it before    *)
(* that.  timers holds the handlers given to setTimeout that have not run  *)
(* yet; they are due 1 ms after the handler has returned, before the       *)
(* user's next action.                                                     *)
(***************************************************************************)
VARIABLES options, el, tx, prev, timers

vars == <<options, el, tx, prev, timers>>

\* the element as a handler sees it, with the caret at offset caret
Element(e, caret) ==
  [value |-> e.value, selectionEnd |-> caret, oldValue |-> e.oldValue,
   masked |-> e.masked, unmaskedValue |-> e.unmaskedValue]

\* the fields of the element that outlive the transaction
Fields(e) ==
  [value |-> e.value, oldValue |-> e.oldValue,
   masked |-> e.masked, unmaskedValue |-> e.unmaskedValue]

\* the option sets of the checked fields (separator "," and decimal ".")
BaseOptions ==
  [prefix |-> <<>>, suffix |-> <<>>, separator |-> ",", decimal |-> ".",
   precision |-> 0, minimumFractionDigits |-> 0, prefill |-> FALSE,
   reverseFill |-> FALSE, min |-> -3, max |-> 100, nullValue |-> <<>>]

Configs ==
  { BaseOptions,
    [BaseOptions EXCEPT !.prefix = <<"$">>, !.suffix = <<"%">>, !.min = 0],
    [BaseOptions EXCEPT !.prefix = <<"R", "$">>, !.precision = 1,
                        !.minimumFractionDigits = 1, !.max = 0],
    [BaseOptions EXCEPT !.suffix = <<"k", ".">>] }

\* keys the user presses: backspace, "-" on the numeric pad and on the main
\* row, "." on the main row, and a digit
Backspace == [keyCode |-> KeyBackspace, key |-> <<"Backspace">>]

Keys ==
  { Backspace,
    [keyCode |-> KeyNumpadSubtract, key |-> <<"-">>],
    [keyCode |-> 189,               key |-> <<"-">>],
    [keyCode |-> KeyPeriod,         key |-> <<".">>],
    [keyCode |-> 49,                key |-> <<"1">>] }

NoKey == [keyCode |-> 0, key |-> <<>>]

\* characters typed one at a time, and texts pasted over the whole field
TypedChars == {"1", "a"}

PasteTexts ==
  { <<>>, <<"2", "0", "0">>, <<"-", "5">>,
    <<"1", "2", "3", "1", "2", "3", "4">> }

NativeInputEvent == [type |-> "input", facade |-> FALSE]

BlurEvent == [type |-> "blur", facade |-> FALSE]

\* the element of a field just bound: nothing assigned yet
Unbound ==
  [value |-> <<>>, oldValue |-> Undefined, masked |-> Undefined,
   unmaskedValue |-> Undefined]

\* the history of a field just bound: no event yet, a listener of the
\* notifications holds the initial text
Unheard ==
  [input |-> FALSE, blur |-> FALSE, inputs |-> TRUE, shown |-> <<>>,
   heard |-> <<>>]

\* no handler has run since control last returned to the event loop
NoTransaction ==
  [op |-> "idle", event |-> NativeInputEvent, key |-> NoKey,
   before |-> Element(Unbound, 0), caret |-> 0,
   events |-> <<>>, seen |-> <<>>, cursor |-> <<>>, computed |-> FALSE,
   prevented |-> FALSE, branch |-> "none", edited |-> <<>>]

Quiescent == tx.op = "idle"

Init ==
  /\ options \in Configs
  /\ el = Unbound
  /\ tx = NoTransaction
  /\ prev = Unheard
  /\ timers = <<>>

\* handler op has run on element e0 with result r
Handled(op, event, key, e0, r, prevented, branch, edited) ==
  /\ Quiescent
  /\ timers = <<>>
  /\ el' = Fields(r.el)
  /\ tx' = [op |-> op, event |-> event, key |-> key, before |-> e0,
            caret |-> r.el.selectionEnd,
            events |-> r.events, seen |-> r.seen,
            cursor |-> r.cursor, computed |-> r.computed,
            prevented |-> prevented, branch |-> branch, edited |-> edited]
  /\ timers' = Scheduled(r.cursor)
  /\ UNCHANGED <<options, prev>>

KeyHandled(key, e0, r) ==
  Handled("keydown", NativeInputEvent, key, e0, r, r.prevented, r.branch, r.edited)

InputHandled(event, e0, r) ==
  Handled("input", event, NoKey, e0, r, FALSE, "none", e0.value)

BlurHandled(event, e0, r) ==
  Handled("blur", event, NoKey, e0, r, FALSE, "none", e0.value)

DigitCount(text) == Len(SelectSeq(text, IsDigit))

\* the browser has put raw text and caret in the field and fires input
OnInput(raw, caret) ==
  InputHandled(NativeInputEvent, Element([el EXCEPT !.value = raw], caret),
               InputHandler(Element([el EXCEPT !.value = raw], caret), options,
                            NativeInputEvent))

\* text with character c put in at offset i, and with the character before
\* offset i taken out
Inserted(text, c, i) == SubSeq(text, 1, i) \o <<c>> \o SubSeq(text, i + 1, Len(text))

Deleted(text, i) == SubSeq(text, 1, i - 1) \o SubSeq(text, i + 1, Len(text))

\* the user types character c at offset i
TypeChar ==
  \E c \in TypedChars, i \in 0..Len(el.value) :
    /\ DigitCount(el.value) + (IF IsDigit(c) THEN 1 ELSE 0) <= MaxTyped
    /\ OnInput(Inserted(el.value, c, i), i + 1)

\* the user deletes the character before offset i (the default backspace)
DeleteChar ==
  \E i \in 1..Len(el.value) :
    /\ DigitCount(Deleted(el.value, i)) <= MaxTyped
    /\ OnInput(Deleted(el.value, i), i - 1)

\* the user replaces the whole text by a pasted one
Paste ==
  \E t \in PasteTexts : OnInput(t, Len(t))

\* an input event carrying the facade marker reaches inputHandler
FacadeInput ==
  \E caret \in {0, Len(el.value)} :
    InputHandled(FacadeInputEvent, Element(el, caret),
                 InputHandler(Element(el, caret), options, FacadeInputEvent))

\* the field loses focus
Blur ==
  BlurHandled(BlurEvent, Element(el, Len(el.value)),
              BlurHandler(Element(el, Len(el.value)), options, BlurEvent))

\* a change event carrying the facade marker reaches blurHandler
FacadeBlur ==
  BlurHandled(FacadeChangeEvent, Element(el, Len(el.value)),
              BlurHandler(Element(el, Len(el.value)), options, FacadeChangeEvent))

\* the user presses a key with the caret at offset caret (the handler reads
\* the caret for backspace only)
KeyDown ==
  \E key \in Keys, caret \in 0..Len(el.value) :
    /\ key # Backspace => caret = Len(el.value)
    /\ KeyHandled(key, Element(el, caret),
                  KeydownHandler(Element(el, caret), options, key))

\* the text a listener of the facade input notifications holds after the
\* transaction: the text of the field when the last of them was dispatched
HeardAfter ==
  IF \E i \in 1..Len(tx.events) : tx.events[i] = FacadeInputEvent
  THEN el.value
  ELSE prev.heard

\* a timer is due, after the handler that set it has returned: its handler
\* runs.  A handler that is no function does nothing; one that is a function
\* would call setSelectionRange, which moves only the caret
Timeout ==
  /\ Quiescent
  /\ timers # <<>>
  /\ timers' = Tail(timers)
  /\ UNCHANGED <<options, el, tx, prev>>

\* the transaction is over: control returns to the event loop
Return ==
  /\ ~Quiescent
  /\ tx' = NoTransaction
  /\ prev' = [input  |-> tx.op = "input" /\ ~IsFacade(tx.event),
              blur   |-> tx.op = "blur" /\ ~IsFacade(tx.event),
              inputs |-> prev.inputs /\ tx.op = "input" /\ ~IsFacade(tx.event),
              shown  |-> el.value,
              heard  |-> HeardAfter]
  /\ UNCHANGED <<options, el, timers>>

Next ==
  \/ TypeChar
  \/ DeleteChar
  \/ Paste
  \/ FacadeInput
  \/ Blur
  \/ FacadeBlur
  \/ KeyDown
  \/ Timeout
  \/ Return

Spec == Init /\ [][Next]_vars

(***************************************************************************)
(* Properties.  In a state that is not quiescent, tx describes the         *)
(* transaction that has just run and el its outcome.                       *)
(***************************************************************************)
NativeInputDone == tx.op = "input" /\ ~tx.event.facade

NativeBlurDone == tx.op = "blur" /\ ~tx.event.facade

BackspaceDone == tx.op = "keydown" /\ tx.key = Backspace

\* the clean flag the formatter holds after line 119
UnformatClean == ~options.reverseFill

\* the character before the caret at the keydown
CharBeforeCaret ==
  Slice(tx.before.value, tx.before.selectionEnd - 1, tx.before.selectionEnd)

\* C1: after a non-facade blur, a text whose numeric value is above max is
\* committed as format(max)/unformat(max), one below min as
\* format(min)/unformat(min), and the committed value lies in [min, max]
C1_CommitClamping ==
  NativeBlurDone =>
    LET text == Unformat(options, UnformatClean, tx.before.value)
        maxS == NumToStr(options.max)
        minS == NumToStr(options.min)
    IN  /\ NumberGreater(text, options.max) =>
             /\ el.masked = Format(options, UnformatClean, maxS)
             /\ el.unmaskedValue = Unformat(options, UnformatClean, maxS)
        /\ NumberLess(text, options.min) =>
             /\ el.masked = Format(options, UnformatClean, minS)
             /\ el.unmaskedValue = Unformat(options, UnformatClean, minS)
        /\ ~NumberGreater(el.unmaskedValue, options.max)
        /\ ~NumberLess(el.unmaskedValue, options.min)

\* C2: a non-facade input that recomputes leaves masked = format(raw text)
\* and unmaskedValue = unformat(raw text), whatever min and max are: the
\* value is never replaced by a bound while typing
C2_NoClampWhileTyping ==
  (NativeInputDone /\ tx.computed) =>
    /\ el.masked = Format(options, FALSE, tx.before.value)
    /\ el.unmaskedValue = Unformat(options, UnformatClean, tx.before.value)
    /\ el.value = el.masked

\* C2 witness: an input has been recomputed to a value above max and is shown
\* unclamped
C2_Witness ==
  /\ NativeInputDone
  /\ tx.computed
  /\ options.max # 0
  /\ NumberGreater(el.unmaskedValue, options.max)
  /\ el.value # Format(options, UnformatClean, NumToStr(options.max))

\* C3: an input event that produces the same masked text as the input event
\* immediately before it dispatches no facade input notification
C3_NoOpSuppression ==
  (NativeInputDone /\ prev.input /\ el.value = prev.shown) =>
    \A i \in 1..Len(tx.events) : tx.events[i] # FacadeInputEvent

\* C4: when inputHandler or blurHandler signals its notification, oldValue
\* is on return the masked value just computed, which is the displayed text
C4_OldValueTracksMasked ==
  /\ (NativeInputDone /\ \E i \in 1..Len(tx.events) : tx.events[i] = FacadeInputEvent)
       => (el.oldValue = el.masked /\ el.oldValue = el.value)
  /\ (NativeBlurDone /\ \E i \in 1..Len(tx.events) : tx.events[i] = FacadeChangeEvent)
       => (el.oldValue = el.masked /\ el.oldValue = el.value)

\* C5: after every completed non-facade input or blur transaction masked is
\* the displayed text and unmaskedValue is unformat of that text
C5_MaskedUnmaskedInSync ==
  (NativeInputDone \/ NativeBlurDone) =>
    /\ el.masked = el.value
    /\ el.unmaskedValue = Unformat(options, UnformatClean, el.value)

\* C6: a handler given an event carrying the facade marker leaves text,
\* caret, masked, unmaskedValue and oldValue as they were and dispatches
\* nothing
C6_FacadeShortCircuit ==
  (tx.op \in {"input", "blur"} /\ tx.event.facade) =>
    /\ el = Fields(tx.before)
    /\ tx.caret = tx.before.selectionEnd
    /\ tx.events = <<>>
    /\ tx.cursor = <<>>
    /\ ~tx.computed

\* C6 witness: a facade event has reached a handler of a field whose text a
\* native event would have reformatted
C6_Witness ==
  /\ tx.op \in {"input", "blur"}
  /\ tx.event.facade
  /\ tx.before.value # <<>>
  /\ tx.before.oldValue # tx.before.value

\* C7: every caret offset p inputHandler sets on a non-facade input lies
\* outside prefix and suffix: prefix.length <= p <= length - suffix.length,
\* and 0 <= p <= length
C7_CaretOutsideAffixes ==
  NativeInputDone =>
    \A i \in 1..Len(tx.cursor) :
      /\ Len(options.prefix) <= tx.cursor[i]
      /\ tx.cursor[i] <= Len(el.value) - Len(options.suffix)
      /\ 0 <= tx.cursor[i]
      /\ tx.cursor[i] <= Len(el.value)

\* C8: a backspace with the separator before the caret is suppressed,
\* removes exactly the characters at offsets caret-2 and caret-1 and raises
\* a synthetic input event
C8_BackspaceOverSeparator ==
  (BackspaceDone /\ CharBeforeCaret = <<options.separator>>) =>
    LET text  == tx.before.value
        caret == tx.before.selectionEnd
    IN  /\ tx.prevented
        /\ tx.edited = SubSeq(text, 1, caret - 2) \o SubSeq(text, caret + 1, Len(text))
        /\ tx.events # <<>>
        /\ tx.events[1] = SyntheticInputEvent

\* C9: with min >= 0 every keydown of the "-" key is suppressed; with
\* min < 0 the sign rule suppresses none
C9_NegativeInputGate ==
  (tx.op = "keydown" /\ tx.key.key = <<"-">>) =>
    /\ options.min >= 0 => tx.prevented
    /\ options.min < 0 => tx.branch # "negative"

\* C10: with a prefix of length >= 1, a backspace whose character before the
\* caret is the last character of prefix, or "-", is suppressed, empties the
\* field text and raises a synthetic input event
C10_BackspaceAtPrefixOrSign ==
  (/\ BackspaceDone
   /\ Len(options.prefix) >= 1
   /\ CharBeforeCaret # <<options.separator>>
   /\ \/ CharBeforeCaret = <<options.prefix[Len(options.prefix)]>>
      \/ CharBeforeCaret = <<"-">>) =>
    /\ tx.prevented
    /\ tx.edited = <<>>
    /\ tx.events # <<>>
    /\ tx.events[1] = SyntheticInputEvent

\* C11: a keydown of the decimal character is suppressed if and only if the
\* field text with prefix and suffix removed already contains the decimal
\* character
C11_SecondDecimalGate ==
  (tx.op = "keydown" /\ tx.key.key = <<options.decimal>>) =>
    (tx.prevented <=>
       Includes(StripAffixes(options, tx.before.value), <<options.decimal>>))

\* the masked/unmasked pair a commit computes from text (lines 117-130)
Committed(text) ==
  ClampToRange(options, UnformatClean, TRUE,
               Format(options, UnformatClean, text),
               Unformat(options, UnformatClean, text))

\* C12: a non-facade blur recomputes masked and unmaskedValue from the field
\* text even when the text equals oldValue, and dispatches a facade change
\* notification exactly when the resulting masked text differs from the
\* oldValue held at entry
C12_BlurRecomputes ==
  NativeBlurDone =>
    /\ tx.computed
    /\ el.masked = Committed(tx.before.value).masked
    /\ el.unmaskedValue = Committed(tx.before.value).unmasked
    /\ el.value = el.masked
    /\ (\E i \in 1..Len(tx.events) : tx.events[i] = FacadeChangeEvent)
          <=> (el.masked # tx.before.oldValue)

\* C12 witness: a blur of a field whose text equals oldValue has replaced a
\* masked value that was out of date, without a change notification
C12_Witness ==
  /\ NativeBlurDone
  /\ tx.before.value = tx.before.oldValue
  /\ tx.before.masked # el.masked
  /\ tx.computed
  /\ \A i \in 1..Len(tx.events) : tx.events[i] # FacadeChangeEvent

\* the listeners of the field, given event on element e, do nothing at all
ShortCircuited(e, event) ==
  /\ Dispatch(e, options, event).el = e
  /\ Dispatch(e, options, event).events = <<>>
  /\ Dispatch(e, options, event).cursor = <<>>
  /\ BlurHandler(e, options, event).el = e
  /\ BlurHandler(e, options, event).events = <<>>

\* C13: the chain of handler calls of one user action is finite and at most
\* three deep: every event the engine dispatches carries the facade marker
\* and is short-circuited by the handlers it re-enters, except the synthetic
\* input a backspace raises first, which inputHandler processes once, raising
\* facade events only
C13_NoNotificationLoop ==
  ~Quiescent =>
    /\ Len(tx.events) <= 2
    /\ \A i \in 1..Len(tx.events) :
         \/ /\ tx.events[i].facade
            /\ ShortCircuited(tx.before, tx.events[i])
            /\ ShortCircuited(Element(el, tx.caret), tx.events[i])
         \/ /\ tx.events[i] = SyntheticInputEvent
            /\ i = 1
            /\ tx.op = "keydown"
            /\ tx.branch \in {"separator", "clear"}
    /\ (tx.op \in {"input", "blur"} /\ tx.event.facade) => tx.events = <<>>

\* C13 witness: a backspace has raised its synthetic input and inputHandler,
\* entered through it, has dispatched a facade notification
C13_Witness ==
  /\ BackspaceDone
  /\ Len(tx.events) = 2
  /\ tx.events[1] = SyntheticInputEvent
  /\ tx.events[2].type = "input"
  /\ tx.computed

\* the four special conditions of a keydown, as the specification words them
SecondDecimal ==
  /\ tx.key.key = <<options.decimal>>
  /\ Includes(StripAffixes(options, tx.before.value), <<options.decimal>>)

MinusNotAllowed == tx.key.key = <<"-">> /\ options.min >= 0

BackspaceAfterSeparator ==
  tx.key = Backspace /\ CharBeforeCaret = <<options.separator>>

BackspaceAfterPrefixOrSign ==
  /\ tx.key = Backspace
  /\ \/ CharBeforeCaret = <<"-">>
     \/ /\ Len(options.prefix) >= 1
        /\ CharBeforeCaret = <<options.prefix[Len(options.prefix)]>>

\* C14: a keydown that meets none of the four special conditions is not
\* suppressed, leaves text, caret and field state as they were and raises no
\* event; a backspace at offset 0 and one after a digit are such keydowns,
\* whatever the prefix
C14_KeydownFrame ==
  (/\ tx.op = "keydown"
   /\ ~SecondDecimal
   /\ ~MinusNotAllowed
   /\ ~BackspaceAfterSeparator
   /\ ~BackspaceAfterPrefixOrSign) =>
    /\ ~tx.prevented
    /\ el = Fields(tx.before)
    /\ tx.caret = tx.before.selectionEnd
    /\ tx.events = <<>>
    /\ tx.cursor = <<>>

\* the caret's distance from the end of the raw text of the input event
RawFromEnd == Len(tx.before.value) - tx.before.selectionEnd

\* lines 172-174 raise that distance to suffix.length
RaisedToSuffix ==
  TruthyString(options.suffix) /\ RawFromEnd < Len(options.suffix)

\* lines 176-178 raise the resulting offset to prefix.length
RaisedToPrefix ==
  /\ TruthyString(options.prefix)
  /\ Len(el.value) - Max2(RawFromEnd, Len(options.suffix)) < Len(options.prefix)

\* C15: after inputHandler has re-masked the text (to a text that is not
\* empty), the caret is as far from the end of the masked text as it was from
\* the end of the raw text, unless that distance was raised to suffix.length
\* or the offset to prefix.length
C15_CursorStableFromEnd ==
  (/\ NativeInputDone
   /\ tx.computed
   /\ el.value # <<>>
   /\ ~RaisedToSuffix
   /\ ~RaisedToPrefix) =>
    Len(el.value) - tx.caret = RawFromEnd

\* C16: every call of updateCursor in a transaction leaves with setTimeout a
\* handler that is a function setting the caret to the offset of that call;
\* the handler runs on a later tick, after the transaction, and leaves text,
\* masked, unmaskedValue and oldValue as they were
C16_DelayedCursorReapply ==
  /\ [](~Quiescent =>
          /\ Len(timers) = Len(tx.cursor)
          /\ \A i \in 1..Len(timers) :
               /\ timers[i].callable
               /\ timers[i].position = tx.cursor[i])
  /\ [][(timers # <<>> /\ timers' = Tail(timers)) => (Quiescent /\ el' = el)]_vars

\* C17: in a sequence of non-facade input events, a listener that records the
\* text at each facade input notification holds the displayed text once the
\* transaction is complete: a transaction that ends with a text other than
\* the one last notified dispatches a notification
C17_VisibleChangeNotified ==
  (NativeInputDone /\ prev.inputs) =>
    /\ HeardAfter = el.value
    /\ el.value # prev.heard =>
         \E i \in 1..Len(tx.events) : tx.events[i] = FacadeInputEvent

\* C18: the second of two consecutive non-facade blurs (of a field whose
\* oldValue has been assigned before) leaves text, masked and unmaskedValue
\* unchanged and dispatches no facade change notification
C18_BlurIdempotent ==
  (NativeBlurDone /\ prev.blur /\ tx.before.oldValue # Undefined) =>
    /\ el.value = tx.before.value
    /\ el.masked = tx.before.masked
    /\ el.unmaskedValue = tx.before.unmaskedValue
    /\ \A i \in 1..Len(tx.events) : tx.events[i] # FacadeChangeEvent

\* the facade notifications of the transaction of the given type
Notified(type) == {i \in 1..Len(tx.events) : tx.events[i].facade /\ tx.events[i].type = type}

\* C19: a non-facade input transaction dispatches at most one facade input
\* notification and no change notification; a non-facade blur transaction
\* dispatches exactly one facade input notification, then at most one facade
\* change notification, and the listener of the first notification already
\* finds the masked and unmaskedValue (and text) the transaction leaves
C19_NotificationOrder ==
  /\ NativeInputDone =>
       /\ Cardinality(Notified("input")) <= 1
       /\ Notified("change") = {}
       /\ Len(tx.seen) = Len(tx.events)
  /\ NativeBlurDone =>
       /\ Notified("input") = {1}
       /\ Notified("change") \in {{}, {2}}
       /\ Len(tx.events) = Cardinality(Notified("input") \cup Notified("change"))
       /\ Len(tx.seen) = Len(tx.events)
       /\ \A i \in 1..Len(tx.seen) :
            /\ tx.seen[i].masked = el.masked
            /\ tx.seen[i].unmaskedValue = el.unmaskedValue
            /\ tx.seen[i].value = el.value

\* C19 witness: a blur has written a new masked value and dispatched both
\* notifications
C19_Witness ==
  /\ NativeBlurDone
  /\ tx.before.masked # el.masked
  /\ tx.before.masked # Undefined
  /\ Len(tx.events) = 2
  /\ tx.events[2] = FacadeChangeEvent

====
